---- MODULE Spec2Model ----
(***************************************************************************)
(* Model of returning_series_manager.py: one reconciliation pass (main)    *)
(* over the configured Sonarr instances, the stub-file lifecycle on the    *)
(* filesystem, the Plex label / watched synchronisation and the overlay    *)
(* YAML that is emitted at the end.                                        *)
(*                                                                         *)
(* Python strings are modelled as sequences of one-character strings so    *)
(* that endswith, lower, substring tests and path arithmetic are computed  *)
(* and not assumed.  A path or string setting that is None is the empty    *)
(* string: the script only ever tests such settings for truthiness.        *)
(***************************************************************************)
EXTENDS Integers, Sequences, FiniteSets, TLC

\* F applied to the value of e, computed once.
With(e, F(_)) == CHOOSE r \in {F(x) : x \in {e}} : TRUE

\* An unset (None or empty) path or string setting.
NoPath == <<>>

(***************************************************************************)
(* str methods                                                             *)
(***************************************************************************)
UpperChars == <<"A", "B", "C", "E", "K", "M", "P", "S", "U", "V">>
LowerChars == <<"a", "b", "c", "e", "k", "m", "p", "s", "u", "v">>
OtherAlpha == {"d", "g", "i", "l", "n", "o", "r", "t", "x", "y"}
Digits == {"0", "1", "2", "3", "4", "5", "6", "7", "8", "9"}

\* str.lower() on one character: only upper-case letters change.
char_lower(c) ==
    IF \E i \in 1..Len(UpperChars) : UpperChars[i] = c
    THEN LowerChars[CHOOSE i \in 1..Len(UpperChars) : UpperChars[i] = c]
    ELSE c

str_lower(s) == [i \in 1..Len(s) |-> char_lower(s[i])]

str_endswith(s, suffix) ==
    /\ Len(suffix) <= Len(s)
    /\ \A i \in 1..Len(suffix) : s[Len(s) - Len(suffix) + i] = suffix[i]

str_startswith(s, prefix) ==
    /\ Len(prefix) <= Len(s)
    /\ \A i \in 1..Len(prefix) : s[i] = prefix[i]

\* Python's "sub in s".
str_contains(s, sub) ==
    \E k \in 0..Len(s) :
        /\ k + Len(sub) <= Len(s)
        /\ \A i \in 1..Len(sub) : s[k + i] = sub[i]

isalpha(c) ==
    \/ \E i \in 1..Len(UpperChars) : UpperChars[i] = c \/ LowerChars[i] = c
    \/ c \in OtherAlpha

isdigit(c) == c \in Digits

\* str.strip(): leading and trailing blanks removed.
RECURSIVE str_lstrip(_)
str_lstrip(s) ==
    IF s # <<>> /\ Head(s) = " " THEN str_lstrip(Tail(s)) ELSE s

RECURSIVE str_rstrip(_)
str_rstrip(s) ==
    IF s # <<>> /\ s[Len(s)] = " " THEN str_rstrip(SubSeq(s, 1, Len(s) - 1)) ELSE s

str_strip(s) == str_rstrip(str_lstrip(s))

\* str(n) of a non-negative integer.
RECURSIVE int_str(_)
int_str(n) ==
    LET d == <<"0", "1", "2", "3", "4", "5", "6", "7", "8", "9">>[(n % 10) + 1]
    IN IF n < 10 THEN <<d>> ELSE int_str(n \div 10) \o <<d>>

(***************************************************************************)
(* os.path                                                                 *)
(***************************************************************************)
RECURSIVE rstrip_slash(_)
rstrip_slash(p) ==
    IF Len(p) > 1 /\ p[Len(p)] = "/" THEN rstrip_slash(SubSeq(p, 1, Len(p) - 1)) ELSE p

\* os.path.normpath for the paths an inventory reports: trailing separators
\* are dropped and the empty path becomes ".".
path_normpath(p) == IF p = <<>> THEN <<".">> ELSE rstrip_slash(p)

\* Index of the last "/" of p, 0 when there is none.
last_slash(p) ==
    IF \E i \in 1..Len(p) : p[i] = "/"
    THEN CHOOSE i \in 1..Len(p) : p[i] = "/" /\ \A j \in (i + 1)..Len(p) : p[j] # "/"
    ELSE 0

path_basename(p) == SubSeq(p, last_slash(p) + 1, Len(p))

\* os.path.dirname: the head of os.path.split, trailing separators removed
\* unless the head is the root.
path_dirname(p) ==
    LET head == SubSeq(p, 1, last_slash(p))
    IN IF head # <<>> /\ \E i \in 1..Len(head) : head[i] # "/"
       THEN rstrip_slash(head) ELSE head

path_join(a, b) ==
    IF b # <<>> /\ Head(b) = "/" THEN b
    ELSE IF a = <<>> \/ a[Len(a)] = "/" THEN a \o b
    ELSE a \o <<"/">> \o b

(***************************************************************************)
(* Constants of the script                                                 *)
(***************************************************************************)
VIDEO_EXTENSIONS ==
    { <<".", "m", "k", "v">>, <<".", "m", "p", "4">>, <<".", "a", "v", "i">>,
      <<".", "m", "4", "v">>, <<".", "m", "o", "v">>, <<".", "w", "m", "v">> }

PLEX_LABEL_NAME == "series-returning-lock"

\* Number of zero bytes of a synthesized stub.
StubPayloadSize == 1024

(***************************************************************************)
(* The filesystem: fs.files maps each regular file's path to its content,  *)
(* fs.dirs is the set of directories, fs.readonly the directories in which *)
(* no entry can be created (every attempt raises OSError).                 *)
(***************************************************************************)
path_exists(fs, p) == p \in DOMAIN fs.files \/ p \in fs.dirs

\* The parent directory of p can take a new entry.  The empty parent is the
\* working directory, which exists.
parent_usable(fs, p) ==
    LET head == path_dirname(p)
    IN /\ head = <<>> \/ head \in fs.dirs
       /\ head \notin fs.readonly

\* os.mkdir(p): [ok, fs].
os_mkdir(fs, p) ==
    IF p # <<>> /\ ~path_exists(fs, p) /\ parent_usable(fs, p)
    THEN [ok |-> TRUE, fs |-> [fs EXCEPT !.dirs = @ \cup {p}]]
    ELSE [ok |-> FALSE, fs |-> fs]

\* os.makedirs(p, exist_ok): missing ancestors first, then p itself.
RECURSIVE os_makedirs(_, _, _)
os_makedirs(fs, p, exist_ok) ==
    LET head == path_dirname(p)
        tail == path_basename(p)
    IN With(IF head # <<>> /\ tail # <<>> /\ ~path_exists(fs, head)
            THEN os_makedirs(fs, head, exist_ok)
            ELSE [ok |-> TRUE, fs |-> fs],
            LAMBDA up :
               IF ~up.ok THEN up
               ELSE With(os_mkdir(up.fs, p),
                         LAMBDA made :
                            IF made.ok THEN made
                            ELSE [ok |-> exist_ok /\ p \in up.fs.dirs, fs |-> up.fs]))

\* The regular files os.walk(top) reports: those of top, then of every
\* directory below it.
RECURSIVE walk_files(_, _)
walk_files(fs, top) ==
    IF top \notin fs.dirs THEN {}
    ELSE {f \in DOMAIN fs.files : path_dirname(f) = top}
         \cup UNION {walk_files(fs, d) : d \in {x \in fs.dirs : x # top /\ path_dirname(x) = top}}

\* open(p, 'w').write(content) / shutil.copy to p: [ok, fs].
write_file(fs, p, content) ==
    IF p \in DOMAIN fs.files
    THEN [ok |-> TRUE, fs |-> [fs EXCEPT !.files = [@ EXCEPT ![p] = content]]]
    ELSE IF p \notin fs.dirs /\ parent_usable(fs, p)
    THEN [ok |-> TRUE,
          fs |-> [fs EXCEPT !.files = [q \in DOMAIN @ \cup {p} |->
                                          IF q = p THEN content ELSE @[q]]]]
    ELSE [ok |-> FALSE, fs |-> fs]

(***************************************************************************)
(* has_real_media                                                          *)
(***************************************************************************)
\* has_real_media looking at the files of show_path itself only.
has_real_media_top_level_only(fs, show_path, stub_suffix) ==
    IF ~path_exists(fs, show_path) THEN FALSE
    ELSE \E f \in {x \in DOMAIN fs.files : path_dirname(x) = show_path} :
            LET file == path_basename(f)
            IN /\ \E ext \in VIDEO_EXTENSIONS : str_endswith(str_lower(file), ext)
               /\ ~str_endswith(file, stub_suffix)

\* has_real_media with the extension compared without lower().
has_real_media_case_sensitive(fs, show_path, stub_suffix) ==
    IF ~path_exists(fs, show_path) THEN FALSE
    ELSE \E f \in walk_files(fs, show_path) :
            LET file == path_basename(f)
            IN /\ \E ext \in VIDEO_EXTENSIONS : str_endswith(file, ext)
               /\ ~str_endswith(file, stub_suffix)

has_real_media(fs, show_path, stub_suffix) ==
    IF ~path_exists(fs, show_path) THEN FALSE
    ELSE \E f \in walk_files(fs, show_path) :
            LET file == path_basename(f)
            IN /\ \E ext \in VIDEO_EXTENSIONS : str_endswith(str_lower(file), ext)
               /\ ~str_endswith(file, stub_suffix)

(***************************************************************************)
(* create_stub_file                                                        *)
(***************************************************************************)
safe_title(show_title) ==
    str_strip(SelectSeq(show_title,
        LAMBDA c : isalpha(c) \/ isdigit(c) \/ c \in {" ", ".", "-", "_"}))

stub_path_of(show_path, show_title, stub_suffix) ==
    path_join(show_path, safe_title(show_title) \o stub_suffix)

\* create_stub_file without the early return for a stub that exists.
create_stub_file_always_writes(fs, show_path, show_title, template_file, stub_suffix) ==
    With(IF ~path_exists(fs, show_path)
         THEN os_makedirs(fs, show_path, FALSE)
         ELSE [ok |-> TRUE, fs |-> fs],
         LAMBDA made :
            IF ~made.ok THEN [ok |-> FALSE, fs |-> made.fs, wrote |-> FALSE]
            ELSE With(write_file(made.fs, stub_path_of(show_path, show_title, stub_suffix),
                                 [zeros |-> StubPayloadSize]),
                      LAMBDA out : [ok |-> out.ok, fs |-> out.fs, wrote |-> out.ok]))

\* [ok: the return value, fs: the filesystem afterwards, wrote: whether the
\* call wrote a file].
create_stub_file(fs, show_path, show_title, template_file, stub_suffix) ==
    LET stub_path == stub_path_of(show_path, show_title, stub_suffix)
        write(made) ==
            IF template_file # NoPath /\ path_exists(made.fs, template_file)
            THEN IF template_file \in DOMAIN made.fs.files
                 THEN write_file(made.fs, stub_path, made.fs.files[template_file])
                 ELSE [ok |-> FALSE, fs |-> made.fs]
            ELSE write_file(made.fs, stub_path, [zeros |-> StubPayloadSize])
    IN IF path_exists(fs, stub_path) THEN [ok |-> TRUE, fs |-> fs, wrote |-> FALSE]
       ELSE With(IF ~path_exists(fs, show_path)
                 THEN os_makedirs(fs, show_path, FALSE)
                 ELSE [ok |-> TRUE, fs |-> fs],
                 LAMBDA made :
                    IF ~made.ok THEN [ok |-> FALSE, fs |-> made.fs, wrote |-> FALSE]
                    ELSE With(write(made),
                              LAMBDA out : [ok |-> out.ok, fs |-> out.fs, wrote |-> out.ok]))

(***************************************************************************)
(* process_plex_label.  plex.up says whether the server answers (a request *)
(* to a server that is down raises); plex.shows is the catalog: each show  *)
(* has a title, its guids (cross references), its own guid, its labels and *)
(* its episodes; an episode has media, each a sequence of part files       *)
(* (NoPath for a part without a file), and the isWatched flag;             *)
(* plex.failing holds the titles whose search request raises although the  *)
(* server was connected to.                                                *)
(***************************************************************************)
TmdbPrefix == <<"t", "m", "d", "b", ":", "/", "/">>

\* plex.search(title, mediatype='show'): the catalog's shows, in catalog
\* order, whose title contains the query, compared case-insensitively.
plex_search(plex, title) ==
    SelectSeq([i \in 1..Len(plex.shows) |-> i],
              LAMBDA i : str_contains(str_lower(plex.shows[i].title), str_lower(title)))

\* matches = [g.id for g in item.guids]; matches.append(item.guid);
\* any(f"tmdb://{tmdb_id}" in g for g in matches)
guid_matches(item, tmdb_id) ==
    LET matches == Append(item.guids, item.guid)
    IN \E k \in 1..Len(matches) : str_contains(matches[k], TmdbPrefix \o int_str(tmdb_id))

\* The first search result that matches, 0 when none does.
find_show(plex, results, tmdb_id) ==
    LET hits == {k \in 1..Len(results) : guid_matches(plex.shows[results[k]], tmdb_id)}
    IN IF hits = {} THEN 0
       ELSE results[CHOOSE k \in hits : \A j \in hits : k <= j]

\* The stub test taking any part that has a file.
is_this_stub_any_file(episode, stub_suffix) ==
    \E m \in 1..Len(episode.media) : \E q \in 1..Len(episode.media[m]) :
        episode.media[m][q] # NoPath

\* An episode one of whose part files ends with the stub suffix.
is_this_stub(episode, stub_suffix) ==
    \E m \in 1..Len(episode.media) : \E q \in 1..Len(episode.media[m]) :
        LET file == episode.media[m][q]
        IN file # NoPath /\ str_endswith(file, stub_suffix)

\* The first stub episode of the show, 0 when there is none.
first_stub_episode(show, stub_suffix) ==
    LET stubs == {e \in 1..Len(show.episodes) : is_this_stub(show.episodes[e], stub_suffix)}
    IN IF stubs = {} THEN 0 ELSE CHOOSE e \in stubs : \A j \in stubs : e <= j

\* The label added without looking at the labels present.
add_label_always(show) == TRUE

\* if PLEX_LABEL_NAME not in current_labels
add_label_needed(show) == PLEX_LABEL_NAME \notin show.labels

\* [plex: the catalog afterwards, found: the show matched (0: none),
\*  labelled: the shows addLabel was called on, marked: the <<show, episode>>
\*  pairs markWatched was called on, raised: the except clause was taken].
process_plex_label(plex, tmdb_id, title, stub_suffix) ==
    LET nothing == [plex |-> plex, found |-> 0, labelled |-> {}, marked |-> {},
                    raised |-> FALSE]
        found == find_show(plex, plex_search(plex, title), tmdb_id)
        show == plex.shows[found]
        add_label == add_label_needed(show)
        e == first_stub_episode(show, stub_suffix)
        mark == e # 0 /\ ~show.episodes[e].isWatched
        show1 == IF add_label
                 THEN [show EXCEPT !.labels = @ \cup {PLEX_LABEL_NAME}] ELSE show
        show2 == IF mark
                 THEN [show1 EXCEPT !.episodes[e].isWatched = TRUE] ELSE show1
    IN IF ~plex.up \/ title \in plex.failing THEN [nothing EXCEPT !.raised = TRUE]
       ELSE IF found = 0 THEN nothing
       ELSE [plex |-> [plex EXCEPT !.shows[found] = show2],
             found |-> found,
             labelled |-> IF add_label THEN {found} ELSE {},
             marked |-> IF mark THEN {<<found, e>>} ELSE {},
             raised |-> FALSE]

(***************************************************************************)
(* merge_styles and validate_font.  A style is a function from attribute   *)
(* names to YAML values; a YAML value is a record tagged with its type.    *)
(***************************************************************************)
YNull == [t |-> "null"]
YStr(s) == [t |-> "str", v |-> s]
YInt(n) == [t |-> "int", v |-> n]
YBool(b) == [t |-> "bool", v |-> b]

\* Python truthiness of a YAML or JSON value.
truthy(x) ==
    CASE x.t = "null" -> FALSE
      [] x.t = "bool" -> x.v
      [] x.t = "int" -> x.v # 0
      [] x.t = "str" -> x.v # <<>>

EmptyStyle == [k \in {} |-> YNull]

\* merge_styles testing the override for truthiness instead of None.
merge_styles_truthy(global_defaults, specific_style) ==
    [key \in DOMAIN global_defaults
              \cup {k \in DOMAIN specific_style : truthy(specific_style[k])} |->
        IF key \in DOMAIN specific_style /\ truthy(specific_style[key])
        THEN specific_style[key]
        ELSE global_defaults[key]]

\* A dict of attributes is truthy when it has a key.
merge_styles(global_defaults, specific_style) ==
    IF DOMAIN specific_style = {} THEN global_defaults
    ELSE [key \in DOMAIN global_defaults
                  \cup {k \in DOMAIN specific_style : specific_style[k] # YNull} |->
            IF key \in DOMAIN specific_style /\ specific_style[key] # YNull
            THEN specific_style[key]
            ELSE global_defaults[key]]

dict_del(d, key) == [k \in DOMAIN d \ {key} |-> d[k]]

validate_font(fs, style_dict) ==
    IF "font" \in DOMAIN style_dict /\ truthy(style_dict["font"])
    THEN IF style_dict["font"].t = "str" /\ path_exists(fs, style_dict["font"].v)
         THEN style_dict
         ELSE dict_del(style_dict, "font")
    ELSE style_dict

(***************************************************************************)
(* Sonarr.  A server holds up (FALSE: every request raises                 *)
(* RequestException), its media-management settings (a JSON object) and    *)
(* its series list; a series is a JSON object with title, status, path     *)
(* (strings) and monitored, tmdbId (JSON values, YNull when the key is     *)
(* missing).                                                               *)
(***************************************************************************)
\* The update sent whatever the settings fetched.
ensure_sonarr_settings_always_puts(server) ==
    IF ~server.up THEN [server |-> server, put |-> FALSE]
    ELSE [server |-> [server EXCEPT !.settings =
                         [k \in DOMAIN server.settings \cup {"createEmptySeriesFolders"} |->
                            IF k = "createEmptySeriesFolders" THEN YBool(TRUE)
                            ELSE IF k = "deleteEmptyFolders" THEN YBool(FALSE)
                            ELSE server.settings[k]]],
          put |-> TRUE]

\* [server: the server afterwards, put: whether an update was sent].
ensure_sonarr_settings(server) ==
    LET config_data == server.settings
        create_empty == IF "createEmptySeriesFolders" \in DOMAIN config_data
                        THEN truthy(config_data["createEmptySeriesFolders"]) ELSE FALSE
        delete_empty == IF "deleteEmptyFolders" \in DOMAIN config_data
                        THEN truthy(config_data["deleteEmptyFolders"]) ELSE FALSE
        updated == [k \in DOMAIN config_data
                          \cup (IF create_empty THEN {} ELSE {"createEmptySeriesFolders"}) |->
                       IF k = "createEmptySeriesFolders" /\ ~create_empty THEN YBool(TRUE)
                       ELSE IF k = "deleteEmptyFolders" /\ delete_empty THEN YBool(FALSE)
                       ELSE config_data[k]]
    IN IF ~server.up THEN [server |-> server, put |-> FALSE]
       ELSE IF ~create_empty \/ delete_empty
       THEN [server |-> [server EXCEPT !.settings = updated], put |-> TRUE]
       ELSE [server |-> server, put |-> FALSE]

\* The series list of a server whatever became of the request.
get_sonarr_series_ignores_failure(server) == server.series

get_sonarr_series(server) == IF server.up THEN server.series ELSE <<>>

(***************************************************************************)
(* process_sonarr_instance.  The run's accumulator acc carries the         *)
(* filesystem, the Plex catalog and what the run has done so far:          *)
(*   ids        the identifiers appended, in order                         *)
(*   appended   the <<instance, show>> pairs whose identifier was appended *)
(*   attempted  the <<instance, show>> pairs create_stub_file was called on*)
(*   created    the stub paths written                                     *)
(*   synced     the <<instance, show>> pairs process_plex_label was called *)
(*              on                                                         *)
(*   unsynced   those of them whose call raised or matched no show         *)
(*   labelled   the catalog shows addLabel was called on                   *)
(*   marked     the <<show, episode>> pairs markWatched was called on      *)
(***************************************************************************)
show_path_of(library_path, sonarr_path) ==
    path_join(library_path, path_basename(path_normpath(sonarr_path)))

\* The filter without its test of the monitored flag.
is_filtered_status_only(show) ==
    str_lower(show.status) \notin { <<"c", "o", "n", "t", "i", "n", "u", "i", "n", "g">>,
                                    <<"u", "p", "c", "o", "m", "i", "n", "g">> }

\* if not monitored or status not in ['continuing', 'upcoming']: continue
is_filtered(show) ==
    \/ ~truthy(show.monitored)
    \/ str_lower(show.status) \notin { <<"c", "o", "n", "t", "i", "n", "u", "i", "n", "g">>,
                                       <<"u", "p", "c", "o", "m", "i", "n", "g">> }

\* One iteration of "for show in series_list".
process_show(acc, i, k, show, library_path, plex_server, config_settings) ==
    LET show_path == show_path_of(library_path, show.path)
        do_plex == plex_server /\ truthy(show.tmdbId)
    IN IF is_filtered(show) THEN acc
       ELSE IF has_real_media(acc.fs, show_path, config_settings.stub_suffix) THEN acc
       ELSE
         With(create_stub_file(acc.fs, show_path, show.title,
                               config_settings.template_file, config_settings.stub_suffix),
              LAMBDA stub :
         With(IF do_plex
              THEN process_plex_label(acc.plex, show.tmdbId.v, show.title,
                                      config_settings.stub_suffix)
              ELSE [plex |-> acc.plex, found |-> 0, labelled |-> {}, marked |-> {},
                    raised |-> FALSE],
              LAMBDA sync :
            [acc EXCEPT
               !.fs = stub.fs,
               !.attempted = @ \cup {<<i, k>>},
               !.created = @ \cup (IF stub.wrote
                                   THEN {stub_path_of(show_path, show.title,
                                                      config_settings.stub_suffix)}
                                   ELSE {}),
               !.plex = sync.plex,
               !.synced = @ \cup (IF do_plex THEN {<<i, k>>} ELSE {}),
               !.unsynced = @ \cup (IF do_plex /\ (sync.raised \/ sync.found = 0)
                                    THEN {<<i, k>>} ELSE {}),
               !.labelled = @ \cup sync.labelled,
               !.marked = @ \cup sync.marked,
               !.ids = IF truthy(show.tmdbId) THEN Append(@, show.tmdbId.v) ELSE @,
               !.appended = @ \cup (IF truthy(show.tmdbId) THEN {<<i, k>>} ELSE {})]))

\* The loop left at the first show whose Plex sync raised or matched nothing.
RECURSIVE process_shows_breaks(_, _, _, _, _, _, _)
process_shows_breaks(acc, i, k, series_list, library_path, plex_server, config_settings) ==
    IF k > Len(series_list) THEN acc
    ELSE With(process_show(acc, i, k, series_list[k], library_path, plex_server,
                           config_settings),
              LAMBDA next : IF next.unsynced # acc.unsynced THEN next
                            ELSE process_shows_breaks(next, i, k + 1, series_list,
                                                      library_path, plex_server,
                                                      config_settings))

RECURSIVE process_shows(_, _, _, _, _, _, _)
process_shows(acc, i, k, series_list, library_path, plex_server, config_settings) ==
    IF k > Len(series_list) THEN acc
    ELSE With(process_show(acc, i, k, series_list[k], library_path, plex_server,
                           config_settings),
              LAMBDA next : process_shows(next, i, k + 1, series_list, library_path,
                                          plex_server, config_settings))

\* The accumulator after instance i; its ids are extended by the instance's
\* list, as main does with the list returned.
process_sonarr_instance(acc, i, instance, plex_server, config_settings) ==
    IF instance.url = NoPath \/ instance.api_key = NoPath \/ instance.library_path = NoPath
    THEN acc
    ELSE With(ensure_sonarr_settings(acc.sonarr[i]),
              LAMBDA settings :
                 process_shows(
                    [acc EXCEPT !.sonarr[i] = settings.server,
                                !.requested = @ \cup {i},
                                !.puts = @ \cup (IF settings.put THEN {i} ELSE {}),
                                !.listed = @ \cup (IF settings.server.up THEN {i} ELSE {})],
                    i, 1, get_sonarr_series(settings.server), instance.library_path,
                    plex_server, config_settings))

RECURSIVE process_instances(_, _, _, _, _)
process_instances(acc, i, sonarr_instances, plex_server, config_settings) ==
    IF i > Len(sonarr_instances) THEN acc
    ELSE With(process_sonarr_instance(acc, i, sonarr_instances[i], plex_server,
                                      config_settings),
              LAMBDA next : process_instances(next, i + 1, sonarr_instances, plex_server,
                                              config_settings))

(***************************************************************************)
(* main: the overlay YAML and the whole run                                *)
(***************************************************************************)
\* str(value), as an f-string formats it.
py_str(x) ==
    CASE x.t = "str" -> x.v
      [] x.t = "int" -> int_str(x.v)
      [] x.t = "bool" -> IF x.v THEN <<"T", "r", "u", "e">> ELSE <<"F", "a", "l", "s", "e">>
      [] x.t = "null" -> <<"N", "o", "n", "e">>

Range(seq) == {seq[i] : i \in 1..Len(seq)}

\* The master list handed on as it was extended.
dedupe_keeps_all(master_tmdb_ids) == {master_tmdb_ids}

\* list(set(master_tmdb_ids)): the lists the build can produce, one per
\* iteration order of the set.
dedupe(master_tmdb_ids) ==
    {l \in UNION {[1..n -> Range(master_tmdb_ids)] : n \in 0..Len(master_tmdb_ids)} :
        /\ Range(l) = Range(master_tmdb_ids)
        /\ Len(l) = Cardinality(Range(master_tmdb_ids))}

\* The document without an artifact: nothing was handed to yaml.dump.
NoData == [none |-> TRUE]

\* kometa_data["overlays"]["returning_series"].
kometa_data(fs, config, master_tmdb_ids) ==
    LET final_overlay_style == validate_font(fs,
                                   merge_styles(config.global_defaults, config.overlay_style))
        overlay_text == IF "text" \in DOMAIN final_overlay_style
                        THEN final_overlay_style["text"]
                        ELSE YStr(<<"R", "E", "T", "U", "R", "N", "I", "N", "G">>)
        overlay_name == YStr(<<"t", "e", "x", "t", "(">> \o py_str(overlay_text) \o <<")">>)
        rest == dict_del(final_overlay_style, "text")
    IN IF master_tmdb_ids = <<>>
       THEN [overlay |-> [k \in {"name"} |->
                             YStr(<<"R", "e", "t", "u", "r", "n", "i", "n", "g", " ",
                                    "S", "e", "r", "i", "e", "s">>)],
             tmdb_show |-> <<>>]
       ELSE [overlay |-> [k \in {"name"} \cup DOMAIN rest |->
                             IF k \in DOMAIN rest THEN rest[k] ELSE overlay_name],
             tmdb_show |-> master_tmdb_ids]

\* Step 7 of main writing nothing when no show qualifies.
generate_yaml_skips_empty(fs, config, master_tmdb_ids) ==
    IF ~config.generate_overlay \/ config.returning_path = NoPath \/ master_tmdb_ids = <<>>
    THEN [fs |-> fs, kometa |-> NoData, written |-> FALSE]
    ELSE With(kometa_data(fs, config, master_tmdb_ids),
              LAMBDA data :
         With(os_makedirs(fs, path_dirname(config.returning_path), TRUE),
              LAMBDA made :
                 IF ~made.ok THEN [fs |-> made.fs, kometa |-> data, written |-> FALSE]
                 ELSE With(write_file(made.fs, config.returning_path, [yaml |-> data]),
                           LAMBDA out : [fs |-> out.fs, kometa |-> data,
                                         written |-> out.ok])))

\* Step 7 of main: [fs, kometa: the document built (NoData when none was),
\* written: whether the artifact was written].
generate_yaml(fs, config, master_tmdb_ids) ==
    IF ~config.generate_overlay \/ config.returning_path = NoPath
    THEN [fs |-> fs, kometa |-> NoData, written |-> FALSE]
    ELSE With(kometa_data(fs, config, master_tmdb_ids),
              LAMBDA data :
         With(os_makedirs(fs, path_dirname(config.returning_path), TRUE),
              LAMBDA made :
                 IF ~made.ok THEN [fs |-> made.fs, kometa |-> data, written |-> FALSE]
                 ELSE With(write_file(made.fs, config.returning_path, [yaml |-> data]),
                           LAMBDA out : [fs |-> out.fs, kometa |-> data,
                                         written |-> out.ok])))

\* load_config: the exit it ends the process with ("none": it returns the
\* parsed file).  A missing file is sys.exit(1); a file that is no YAML
\* makes yaml.safe_load raise, which nothing catches.
load_config(config) ==
    CASE config.file = "missing" -> "exit1"
      [] config.file = "unparseable" -> "traceback"
      [] config.file = "yaml" -> "none"

\* setup_logging(log_level, log_file_path): the log file is opened with mode
\* 'w'; a file that cannot be opened is reported and not used.
setup_logging(fs, log_file_path) ==
    IF log_file_path = NoPath THEN fs
    ELSE write_file(fs, log_file_path, [log |-> "run"]).fs

\* The run going on without any instance configured.
no_instances_never(config) == FALSE

\* if not sonarr_instances
no_instances(config) == config.sonarr_instances = <<>>

\* plex_server: a connection was made.
connect_plex(config, plex) ==
    config.plex_url # NoPath /\ config.plex_token # NoPath /\ plex.up

\* master_tmdb_ids = [] with nothing done yet.
new_acc(fs, plex, sonarr) ==
    [fs |-> fs, plex |-> plex, sonarr |-> sonarr, ids |-> <<>>,
     appended |-> {}, attempted |-> {}, created |-> {}, synced |-> {},
     unsynced |-> {}, labelled |-> {},
     marked |-> {}, requested |-> {}, puts |-> {}, listed |-> {}]

\* config_settings of main.
config_settings_of(config) ==
    [template_file |-> config.template_file, stub_suffix |-> config.stub_suffix]

\* Steps 4 and 5 of main: the accumulator after every instance.
run_instances(config, sonarr, fs, plex) ==
    LET plex_server == connect_plex(config, plex)
        config_settings == config_settings_of(config)
        acc0 == new_acc(fs, plex, sonarr)
    IN process_instances(acc0, 1, config.sonarr_instances, plex_server, config_settings)

(***************************************************************************)
(* The installation that is checked                                        *)
(***************************************************************************)
\* How many changes the environment (the user, Sonarr, Plex) makes in one
\* behaviour.
MaxEnvChanges == 2

LibraryPath == <<"/", "t">>
StubSuffix == <<"-", "s", ".", "m", "p", "4">>
TemplatePath == <<"/", "t", "p", "l">>
\* The working directory, the parent of every relative path.
WorkingDir == <<>>
\* 'returning_series_manager.log', in the working directory.
LogFile == <<"l">>
OutputPaths == { <<"o", "/", "r">>, <<"r">>, NoPath }

StatusContinuing == <<"c", "o", "n", "t", "i", "n", "u", "i", "n", "g">>
StatusUpcoming == <<"U", "p", "c", "o", "m", "i", "n", "g">>
StatusEnded == <<"e", "n", "d", "e", "d">>
Statuses == {StatusContinuing, StatusUpcoming, StatusEnded}
MonitoredValues == {YBool(TRUE), YBool(FALSE), YNull}

TitleA == <<"A", "!">>
TitleB == <<"B">>

Url(n) == <<"h", "t", "t", "p", ":", "/", "/", "s">> \o int_str(n)

Instances ==
    << [name |-> "main", url |-> Url(1), api_key |-> <<"k">>, library_path |-> LibraryPath],
       [name |-> "uhd", url |-> Url(2), api_key |-> <<"k">>, library_path |-> LibraryPath] >>

BaseConfig ==
    [file |-> "yaml", log_file |-> LogFile,
     template_file |-> TemplatePath, stub_suffix |-> StubSuffix,
     generate_overlay |-> TRUE, returning_path |-> <<"o", "/", "r">>,
     global_defaults |-> [k \in {"font", "text", "size"} |->
                            CASE k = "font" -> YStr(<<"f">>)
                              [] k = "text" -> YStr(<<"R">>)
                              [] k = "size" -> YInt(5)],
     overlay_style |-> [k \in {"size", "color"} |->
                          IF k = "size" THEN YNull ELSE YStr(<<"c">>)],
     plex_url |-> <<"p">>, plex_token |-> <<"k">>,
     sonarr_instances |-> Instances]

\* The configurations checked: the base one, and the base one with one
\* setting changed.
Configs ==
    {BaseConfig,
     [BaseConfig EXCEPT !.template_file = NoPath],
     [BaseConfig EXCEPT !.plex_url = NoPath],
     [BaseConfig EXCEPT !.generate_overlay = FALSE]}
    \cup {[BaseConfig EXCEPT !.returning_path = out] : out \in OutputPaths}

InitSonarr ==
    << [up |-> TRUE,
        settings |-> [k \in {"id", "createEmptySeriesFolders", "deleteEmptyFolders"} |->
                        CASE k = "id" -> YInt(1)
                          [] k = "createEmptySeriesFolders" -> YBool(FALSE)
                          [] k = "deleteEmptyFolders" -> YBool(TRUE)],
        series |-> << [title |-> TitleA, status |-> StatusContinuing,
                       monitored |-> YBool(TRUE), tmdbId |-> YInt(1),
                       path |-> <<"/", "s", "/", "A", "/">>],
                      [title |-> TitleB, status |-> StatusUpcoming,
                       monitored |-> YBool(TRUE), tmdbId |-> YInt(2),
                       path |-> <<"/", "s", "/", "B">>] >>],
       [up |-> TRUE,
        settings |-> [k \in {"id", "createEmptySeriesFolders", "deleteEmptyFolders"} |->
                        CASE k = "id" -> YInt(1)
                          [] k = "createEmptySeriesFolders" -> YBool(TRUE)
                          [] k = "deleteEmptyFolders" -> YBool(FALSE)],
        series |-> << [title |-> TitleA, status |-> StatusContinuing,
                       monitored |-> YBool(TRUE), tmdbId |-> YInt(1),
                       path |-> <<"/", "s", "/", "A">>] >>] >>

InitFs ==
    [files |-> [p \in {TemplatePath} |-> [video |-> "template"]],
     dirs |-> { <<"/">>, LibraryPath },
     readonly |-> {}]

InitPlex ==
    [up |-> TRUE, failing |-> {},
     shows |-> << [title |-> TitleA,
                   guids |-> << <<"t", "v", "d", "b", ":", "/", "/", "1">>,
                                <<"t", "m", "d", "b", ":", "/", "/", "1">> >>,
                   guid |-> <<"p", "l", "e", "x", ":", "/", "/", "a">>,
                   labels |-> {}, episodes |-> <<>>,
                   location |-> <<"/", "t", "/", "A">>],
                  [title |-> <<"B", "2">>,
                   guids |-> << <<"t", "m", "d", "b", ":", "/", "/", "2", "1">> >>,
                   guid |-> <<"p", "l", "e", "x", ":", "/", "/", "b">>,
                   labels |-> {}, episodes |-> <<>>,
                   location |-> <<"/", "t", "/", "B", "2">>] >>]

\* The video files a user may drop into the library.
MediaFiles ==
    { <<"/", "t", "/", "A", "/", "e", ".", "m", "k", "v">>,
      <<"/", "t", "/", "B", "/", "S", "/", "E", ".", "M", "P", "4">> }

NoRun ==
    [exit |-> "none", master |-> <<>>, kometa |-> NoData, written |-> FALSE,
     ids |-> <<>>, appended |-> {}, attempted |-> {}, created |-> {}, synced |-> {},
     unsynced |-> {}, labelled |-> {}, marked |-> {}, requested |-> {},
     plex_requested |-> FALSE, puts |-> {}, listed |-> {},
     consecutive |-> FALSE, prev_kometa |-> NoData, prev_written |-> FALSE]

(***************************************************************************)
(* State                                                                   *)
(***************************************************************************)
VARIABLES
    config,     \* the parsed config.yaml
    sonarr,     \* the Sonarr server of each configured instance
    fs,         \* the filesystem
    plex,       \* the Plex server and its catalog
    last,       \* what the last run of main did
    quiet,      \* nothing changed in the environment since the last run
    changes,    \* the number of environment changes so far
    call        \* the last call of a single function, where one is checked alone

vars == <<config, sonarr, fs, plex, last, quiet, changes, call>>

NoCall == [fn |-> "none"]

Init ==
    /\ config \in Configs
    /\ sonarr = InitSonarr
    /\ fs = InitFs
    /\ plex = InitPlex
    /\ last = NoRun
    /\ quiet = FALSE
    /\ changes = 0
    /\ call = NoCall

(***************************************************************************)
(* main(): one whole run                                                   *)
(***************************************************************************)
Main ==
    IF load_config(config) # "none"
    THEN /\ last' = [NoRun EXCEPT !.exit = load_config(config)]
         /\ quiet' = quiet
         /\ UNCHANGED <<config, sonarr, fs, plex, changes, call>>
    ELSE IF no_instances(config)
    THEN /\ last' = [NoRun EXCEPT !.exit = "exit1"]
         /\ quiet' = quiet
         /\ fs' = setup_logging(fs, config.log_file)
         /\ UNCHANGED <<config, sonarr, plex, changes, call>>
    ELSE \E acc \in {run_instances(config, sonarr, setup_logging(fs, config.log_file), plex)} :
           \E master \in dedupe(acc.ids) :
              \E out \in {generate_yaml(acc.fs, config, master)} :
                 /\ fs' = out.fs
                 /\ plex' = acc.plex
                 /\ sonarr' = acc.sonarr
                 /\ last' = [exit |-> "completed", master |-> master,
                             kometa |-> out.kometa, written |-> out.written,
                             ids |-> acc.ids, appended |-> acc.appended,
                             attempted |-> acc.attempted,
                             created |-> acc.created, synced |-> acc.synced,
                             unsynced |-> acc.unsynced, requested |-> acc.requested,
                             plex_requested |-> config.plex_url # NoPath
                                                /\ config.plex_token # NoPath,
                             labelled |-> acc.labelled, marked |-> acc.marked,
                             puts |-> acc.puts, listed |-> acc.listed,
                             consecutive |-> quiet /\ last.exit = "completed",
                             prev_kometa |-> last.kometa,
                             prev_written |-> last.written]
                 /\ quiet' = TRUE
                 /\ UNCHANGED <<config, changes, call>>

(***************************************************************************)
(* The environment between runs                                            *)
(***************************************************************************)
EnvChange ==
    /\ changes < MaxEnvChanges
    /\ changes' = changes + 1
    /\ quiet' = FALSE
    /\ UNCHANGED <<config, last, call>>

\* A user adds a real video file to a show's directory.
AddMedia ==
    /\ EnvChange
    /\ \E f \in MediaFiles :
         /\ f \notin DOMAIN fs.files
         /\ LET made == os_makedirs([fs EXCEPT !.readonly = {}], path_dirname(f), TRUE)
            IN fs' = [fs EXCEPT !.dirs = made.fs.dirs,
                                !.files = [q \in DOMAIN @ \cup {f} |->
                                             IF q = f THEN [video |-> "episode"] ELSE @[q]]]
    /\ UNCHANGED <<sonarr, plex>>

\* A directory becomes read-only, or writable again.
SetReadonly ==
    /\ EnvChange
    /\ \E d \in {LibraryPath, WorkingDir} :
         fs' = [fs EXCEPT !.readonly = IF d \in @ THEN @ \ {d} ELSE @ \cup {d}]
    /\ UNCHANGED <<sonarr, plex>>

\* The first Sonarr reports a show with another status, its first show with
\* another monitored flag, or its second show without a TMDb id.
SonarrEdit ==
    /\ EnvChange
    /\ \E k \in 1..Len(sonarr[1].series) :
         \/ \E st \in Statuses \ {sonarr[1].series[k].status} :
              sonarr' = [sonarr EXCEPT ![1].series[k].status = st]
         \/ /\ k = 1
            /\ \E m \in MonitoredValues \ {sonarr[1].series[k].monitored} :
                 sonarr' = [sonarr EXCEPT ![1].series[k].monitored = m]
         \/ /\ k = 2
            /\ sonarr[1].series[k].tmdbId # YNull
            /\ sonarr' = [sonarr EXCEPT ![1].series[k].tmdbId = YNull]
    /\ UNCHANGED <<fs, plex>>

\* A Sonarr server goes down or comes back.
SonarrToggle ==
    /\ EnvChange
    /\ \E i \in 1..Len(sonarr) : sonarr' = [sonarr EXCEPT ![i].up = ~@]
    /\ UNCHANGED <<fs, plex>>

\* Plex goes down or comes back.
PlexToggle ==
    /\ EnvChange
    /\ plex' = [plex EXCEPT !.up = ~@]
    /\ UNCHANGED <<fs, sonarr>>

\* Plex scans a video file of a show's folder into the catalog as an episode.
PlexScan ==
    /\ EnvChange
    /\ \E s \in 1..Len(plex.shows) : \E f \in walk_files(fs, plex.shows[s].location) :
         /\ \E ext \in VIDEO_EXTENSIONS : str_endswith(str_lower(f), ext)
         /\ \A e \in 1..Len(plex.shows[s].episodes) : plex.shows[s].episodes[e].media # << <<f>> >>
         /\ plex' = [plex EXCEPT !.shows[s].episodes =
                        Append(@, [media |-> << <<f>> >>, isWatched |-> FALSE])]
    /\ UNCHANGED <<fs, sonarr>>

Next ==
    \/ Main
    \/ AddMedia
    \/ SetReadonly
    \/ SonarrEdit
    \/ SonarrToggle
    \/ PlexToggle
    \/ PlexScan

Spec == Init /\ [][Next]_vars

(***************************************************************************)
(* What the properties speak of                                            *)
(***************************************************************************)
\* The <<instance, show>> pairs of the inventory.
AllShows == {<<i, k>> \in (1..Len(sonarr)) \X (1..2) : k <= Len(sonarr[i].series)}

ShowAt(ik) == sonarr[ik[1]].series[ik[2]]

ShowDir(ik) ==
    show_path_of(config.sonarr_instances[ik[1]].library_path, ShowAt(ik).path)

StubOf(ik) == stub_path_of(ShowDir(ik), ShowAt(ik).title, config.stub_suffix)

\* A run has just completed and nothing has changed since.
JustRan == quiet /\ last.exit = "completed"

\* file names a video: it ends with a dot and one of the six extensions, in
\* any mix of upper and lower case.
NamesVideo(file) ==
    \E ext \in { <<"m", "k", "v">>, <<"m", "p", "4">>, <<"a", "v", "i">>,
                 <<"m", "4", "v">>, <<"m", "o", "v">>, <<"w", "m", "v">> } :
        /\ Len(file) >= 4
        /\ file[Len(file) - 3] = "."
        /\ \A i \in 1..3 : char_lower(file[Len(file) - 3 + i]) = ext[i]

\* The regular files at any depth below directory d.
FilesBelow(f, d) == {p \in DOMAIN f.files : str_startswith(p, d \o <<"/">>)}

\* Directory d holds a video file that is not a stub.
RealMediaIn(f, d, suffix) ==
    /\ d \in f.dirs
    /\ \E p \in FilesBelow(f, d) :
          NamesVideo(path_basename(p)) /\ ~str_endswith(path_basename(p), suffix)

\* monitored false or missing, or a status other than continuing or upcoming.
Unqualified(show) ==
    \/ show.monitored \in {YBool(FALSE), YNull}
    \/ str_lower(show.status) \notin {StatusContinuing, str_lower(StatusUpcoming)}

\* The needs-stub shows of the instances that returned their list.
NeedsStub ==
    {ik \in AllShows :
        /\ sonarr[ik[1]].up
        /\ ~Unqualified(ShowAt(ik))
        /\ ~RealMediaIn(fs, ShowDir(ik), config.stub_suffix)}

(***************************************************************************)
(* C1.  After a run, a show whose directory holds real media has no stub   *)
(* file left in that directory and its identifier is not in the list the   *)
(* run wrote.  (No statement of the code deletes a file.)                  *)
(***************************************************************************)
C1_StubRemovedWhenRealMediaArrives ==
    JustRan =>
        \A ik \in AllShows :
            RealMediaIn(fs, ShowDir(ik), config.stub_suffix) =>
                /\ StubOf(ik) \notin DOMAIN fs.files
                /\ ShowAt(ik).tmdbId # YNull => ShowAt(ik).tmdbId.v \notin Range(last.master)

(***************************************************************************)
(* C2.  In every run, a show that is unmonitored (false or missing) or     *)
(* whose status is neither continuing nor upcoming gets no stub creation,  *)
(* no Plex sync and no identifier appended on its account.                 *)
(***************************************************************************)
C2_FilteredShowsUntouched ==
    JustRan =>
        \A ik \in AllShows :
            Unqualified(ShowAt(ik)) =>
                /\ ik \notin last.attempted
                /\ ik \notin last.synced
                /\ ik \notin last.appended

\* A run that left an unmonitored show (flag missing) and an ended show
\* alone, both without real media, while it served another show.
C2_Witness ==
    /\ JustRan
    /\ last.attempted # {}
    /\ \E ik \in AllShows :
          /\ ShowAt(ik).monitored = YNull
          /\ ~RealMediaIn(fs, ShowDir(ik), config.stub_suffix)
    /\ \E ik \in AllShows :
          /\ ShowAt(ik).status = StatusEnded
          /\ ~path_exists(fs, StubOf(ik))

(***************************************************************************)
(* C6.  A run that directly follows a completed run, with nothing changed  *)
(* in between, creates no stub, adds no label, marks no episode watched    *)
(* and hands the emitter the same identifier set and style (and writes it  *)
(* or not as the run before).                                              *)
(***************************************************************************)
C6_SecondRunIsFixedPoint ==
    (last.exit = "completed" /\ last.consecutive) =>
        /\ last.created = {}
        /\ last.labelled = {}
        /\ last.marked = {}
        /\ last.written = last.prev_written
        /\ \/ last.kometa = NoData /\ last.prev_kometa = NoData
           \/ /\ last.kometa # NoData /\ last.prev_kometa # NoData
              /\ Range(last.kometa.tmdb_show) = Range(last.prev_kometa.tmdb_show)
              /\ last.kometa.overlay = last.prev_kometa.overlay

\* A second run over a library with a stub, a labelled show and a watched
\* stub episode, which wrote the artifact again.
C6_Witness ==
    /\ last.exit = "completed" /\ last.consecutive
    /\ last.written /\ last.master # <<>>
    /\ last.synced # {}
    /\ \E ik \in AllShows : path_exists(fs, StubOf(ik))
    /\ \E s \in 1..Len(plex.shows) :
          /\ PLEX_LABEL_NAME \in plex.shows[s].labels
          /\ \E e \in 1..Len(plex.shows[s].episodes) : plex.shows[s].episodes[e].isWatched

(***************************************************************************)
(* C7.  At the end of a run the aggregate identifier set is exactly the    *)
(* set of identifiers of the needs-stub shows (monitored, continuing or    *)
(* upcoming, no real media in the derived directory) of the instances that *)
(* returned their list.  A show without an identifier has none to give.    *)
(***************************************************************************)
C7_AggregateIsNeedsStubSet ==
    JustRan =>
        Range(last.master) =
            {ShowAt(ik).tmdbId.v : ik \in {x \in NeedsStub : ShowAt(x).tmdbId # YNull}}

\* A run with a show kept out by real media under an upper-case extension in
\* a subdirectory, another show listed, and one instance down.
C7_Witness ==
    /\ JustRan
    /\ last.master # <<>>
    /\ \E ik \in AllShows :
          /\ ~Unqualified(ShowAt(ik))
          /\ RealMediaIn(fs, ShowDir(ik), config.stub_suffix)
          /\ \A p \in FilesBelow(fs, ShowDir(ik)) :
                NamesVideo(path_basename(p)) =>
                    /\ str_lower(path_basename(p)) # path_basename(p)
                    /\ path_dirname(p) # ShowDir(ik)
    /\ \E i \in 1..Len(sonarr) : ~sonarr[i].up

(***************************************************************************)
(* C8.  The identifier list handed to the overlay emitter holds no         *)
(* identifier twice.                                                       *)
(***************************************************************************)
C8_NoDuplicateIdentifiers ==
    last.exit = "completed" =>
        \A i, j \in 1..Len(last.master) : last.master[i] = last.master[j] => i = j

\* Two instances reported the same identifier, and a second one was listed.
C8_Witness ==
    /\ last.exit = "completed"
    /\ \E i, j \in 1..Len(last.ids) : i # j /\ last.ids[i] = last.ids[j]
    /\ Len(last.master) = 2

(***************************************************************************)
(* C9.  As claimed: whenever a run ends with an empty aggregate set, the   *)
(* artifact is written, with an empty identifier list.                     *)
(***************************************************************************)
EmptyDocument ==
    [overlay |-> [k \in {"name"} |->
                    YStr(<<"R", "e", "t", "u", "r", "n", "i", "n", "g", " ",
                           "S", "e", "r", "i", "e", "s">>)],
     tmdb_show |-> <<>>]

ProbeDir == <<"/", "d">>

\* A real video, one in a subdirectory under an upper-case extension, a
\* stub, a video whose name ends with the suffix in upper case, two files
\* that are no videos, and a video in a sibling directory.
ProbeFiles ==
    { <<"/", "d", "/", "a", ".", "m", "k", "v">>,
      <<"/", "d", "/", "S", "/", "b", ".", "M", "K", "V">>,
      <<"/", "d", "/", "x", "-", "s", ".", "m", "p", "4">>,
      <<"/", "d", "/", "x", "-", "S", ".", "M", "P", "4">>,
      <<"/", "d", "/", "n", ".", "t", "x", "t">>,
      <<"/", "d", "/", "m", "k", "v">>,
      <<"/", "d", "2", "/", "a", ".", "m", "k", "v">> }

ProbeSuffixes == {StubSuffix, <<>>}

IdleButCall ==
    /\ config = BaseConfig
    /\ sonarr = InitSonarr
    /\ last = NoRun
    /\ quiet = FALSE
    /\ changes = 0

InitMedia ==
    /\ IdleButCall
    /\ plex = InitPlex
    /\ fs = [files |-> [p \in {} |-> [video |-> "episode"]], dirs |-> { <<"/">> },
             readonly |-> {}]
    /\ call = NoCall

PutFile ==
    /\ call = NoCall
    /\ \E f \in ProbeFiles \ DOMAIN fs.files :
         \E made \in {os_makedirs(fs, path_dirname(f), TRUE)} :
            fs' = [made.fs EXCEPT !.files = [q \in DOMAIN @ \cup {f} |->
                                               IF q = f THEN [video |-> "episode"] ELSE @[q]]]
    /\ UNCHANGED <<config, sonarr, plex, last, quiet, changes, call>>

ProbeMedia ==
    /\ call = NoCall
    /\ \E sfx \in ProbeSuffixes :
         call' = [fn |-> "has_real_media", show_path |-> ProbeDir, stub_suffix |-> sfx,
                  result |-> has_real_media(fs, ProbeDir, sfx)]
    /\ UNCHANGED <<config, sonarr, fs, plex, last, quiet, changes>>

NextMedia ==
    \/ PutFile
    \/ ProbeMedia

SpecMedia == InitMedia /\ [][NextMedia]_vars

(***************************************************************************)
(* C4.  has_real_media is false for a missing directory, false when the    *)
(* tree holds no file with a video extension (in any case), false when     *)
(* every video file of the tree ends with the stub suffix, and true when   *)
(* the tree holds, at any depth, a video file that does not.               *)
(***************************************************************************)
C4_HasRealMedia ==
    call.fn = "has_real_media" =>
        LET videos == {p \in FilesBelow(fs, call.show_path) : NamesVideo(path_basename(p))}
            stubs == {p \in videos : str_endswith(path_basename(p), call.stub_suffix)}
        IN /\ call.show_path \notin fs.dirs => ~call.result
           /\ videos = {} => ~call.result
           /\ videos = stubs => ~call.result
           /\ videos # stubs => call.result

\* True for a directory whose only real video lies in a subdirectory under
\* an upper-case extension, beside a stub and a file that is no video.
C4_Witness ==
    /\ call.fn = "has_real_media" /\ call.result
    /\ call.stub_suffix = StubSuffix
    /\ DOMAIN fs.files = { <<"/", "d", "/", "S", "/", "b", ".", "M", "K", "V">>,
                           <<"/", "d", "/", "x", "-", "s", ".", "m", "p", "4">>,
                           <<"/", "d", "/", "m", "k", "v">> }

(***************************************************************************)
(* create_stub_file alone: called again and again with the same arguments  *)
(* on a filesystem that nothing else touches.                              *)
(***************************************************************************)
\* How many times in a row create_stub_file is called.
MaxCalls == 2

StubDir == <<"/", "t", "/", "A">>

StubTitles == {TitleA, <<" ", "B", ":", " ">>, <<"?">>}

\* The library with or without the show's directory, a template and an
\* older stub, and with the library or the directory read-only.
StubFilesystems ==
    { [files |-> [p \in (IF tpl THEN {TemplatePath} ELSE {})
                        \cup (IF old THEN {stub_path_of(StubDir, TitleA, StubSuffix)} ELSE {}) |->
                    IF p = TemplatePath THEN [video |-> "template"] ELSE [video |-> "old"]],
       dirs |-> { <<"/">>, LibraryPath } \cup (IF dir \/ old THEN {StubDir} ELSE {}),
       readonly |-> ro] :
      tpl \in BOOLEAN, old \in BOOLEAN, dir \in BOOLEAN,
      ro \in {{}, {LibraryPath}, {StubDir}} }

InitStub ==
    /\ IdleButCall
    /\ plex = InitPlex
    /\ fs \in StubFilesystems
    /\ \E title \in StubTitles : \E tpl \in {NoPath, TemplatePath} :
         call = [fn |-> "none", show_path |-> StubDir, show_title |-> title,
                 template_file |-> tpl, stub_suffix |-> StubSuffix, n |-> 0,
                 ok |-> FALSE, wrote |-> FALSE,
                 first_ok |-> FALSE, first_wrote |-> FALSE, first_fs |-> fs]

CreateStub ==
    /\ call.n < MaxCalls
    /\ \E r \in {create_stub_file(fs, call.show_path, call.show_title, call.template_file,
                                  call.stub_suffix)} :
         /\ fs' = r.fs
         /\ call' = [call EXCEPT !.fn = "create_stub_file", !.n = @ + 1,
                                 !.ok = r.ok, !.wrote = r.wrote,
                                 !.first_ok = IF call.n = 0 THEN r.ok ELSE @,
                                 !.first_wrote = IF call.n = 0 THEN r.wrote ELSE @,
                                 !.first_fs = IF call.n = 0 THEN r.fs ELSE @]
    /\ UNCHANGED <<config, sonarr, plex, last, quiet, changes>>

NextStub == CreateStub

SpecStub == InitStub /\ [][NextStub]_vars

CalledStubPath == stub_path_of(call.show_path, call.show_title, call.stub_suffix)

(***************************************************************************)
(* C5.  As claimed: after create_stub_file has been called twice with the  *)
(* same arguments the stub file is there, as the first call left it, and   *)
(* the second call returned success without writing.                       *)
(***************************************************************************)
C5_TwoCallsAlwaysLeaveTheStub ==
    call.n >= 2 =>
        /\ CalledStubPath \in DOMAIN fs.files
        /\ fs = call.first_fs
        /\ call.ok /\ ~call.wrote

(***************************************************************************)
(* C5, amended.  When the first call returns success, a further call with  *)
(* the same arguments leaves the stub file there, with the name and the    *)
(* content the first call left, changes nothing else on disk and returns   *)
(* success without writing.                                                *)
(***************************************************************************)
C5_IdempotentAfterSuccess ==
    (call.n >= 2 /\ call.first_ok) =>
        /\ CalledStubPath \in DOMAIN fs.files
        /\ fs = call.first_fs
        /\ call.ok /\ ~call.wrote

\* The first call made the directory and copied the template; the second
\* found the stub.
C5_Witness ==
    /\ call.n = 2 /\ call.first_ok /\ call.first_wrote
    /\ call.first_fs.files[CalledStubPath] = [video |-> "template"]
    /\ call.show_title # TitleA

(***************************************************************************)
(* merge_styles alone                                                      *)
(***************************************************************************)
StyleKeys == {"a", "b"}

StyleValues == {YNull, YStr(<<"x">>), YStr(<<>>), YInt(0), YBool(FALSE)}

StyleDicts == UNION {[keys -> StyleValues] : keys \in SUBSET StyleKeys}

InitStyles ==
    /\ IdleButCall
    /\ plex = InitPlex
    /\ fs = InitFs
    /\ \E d \in StyleDicts : \E o \in StyleDicts :
         call = [fn |-> "none", global_defaults |-> d, specific_style |-> o,
                 result |-> EmptyStyle]

MergeStyles ==
    /\ call.fn = "none"
    /\ call' = [call EXCEPT !.fn = "merge_styles",
                            !.result = merge_styles(call.global_defaults, call.specific_style)]
    /\ UNCHANGED <<config, sonarr, fs, plex, last, quiet, changes>>

NextStyles == MergeStyles

SpecStyles == InitStyles /\ [][NextStyles]_vars

(***************************************************************************)
(* C10.  For every key the merged style holds the override when the        *)
(* override has the key with a value other than null, otherwise the        *)
(* default when the defaults have the key, otherwise nothing.              *)
(***************************************************************************)
C10_NullMeansInherit ==
    call.fn = "merge_styles" =>
        \A key \in StyleKeys :
            LET d == call.global_defaults
                o == call.specific_style
                r == call.result
            IN IF key \in DOMAIN o /\ o[key] # YNull
               THEN key \in DOMAIN r /\ r[key] = o[key]
               ELSE IF key \in DOMAIN d
               THEN key \in DOMAIN r /\ r[key] = d[key]
               ELSE key \notin DOMAIN r

\* One key set to null keeps its default, the other takes an empty string
\* over a default.
C10_Witness ==
    /\ call.fn = "merge_styles"
    /\ call.global_defaults = [k \in StyleKeys |-> YStr(<<"x">>)]
    /\ call.specific_style = [k \in StyleKeys |-> IF k = "a" THEN YNull ELSE YStr(<<>>)]
    /\ call.result = [k \in StyleKeys |-> IF k = "a" THEN YStr(<<"x">>) ELSE YStr(<<>>)]

(***************************************************************************)
(* process_plex_label alone: a catalog with one show, synced again and     *)
(* again while a user may mark episodes unwatched.                         *)
(***************************************************************************)
\* How many episodes the show has.
MaxEpisodes == 2

RealFile == <<"/", "t", "/", "A", "/", "e", ".", "m", "k", "v">>
StubFile == <<"/", "t", "/", "A", "/", "A", "-", "s", ".", "m", "p", "4">>
UpperFile == <<"/", "t", "/", "A", "/", "A", "-", "S", ".", "M", "P", "4">>

\* A real episode, the stub, an episode in two versions whose second has a
\* part without a file and the stub, an episode without a file, and one
\* whose file ends with the suffix in upper case.
EpisodeMedia ==
    { << <<RealFile>> >>, << <<StubFile>> >>, << <<RealFile>>, <<NoPath, StubFile>> >>,
      << <<NoPath>> >>, << <<UpperFile>> >> }

Episodes == [media : EpisodeMedia, isWatched : BOOLEAN]

InitSync ==
    /\ IdleButCall
    /\ fs = InitFs
    /\ \E up \in BOOLEAN : \E eps \in UNION {[1..n -> Episodes] : n \in 0..MaxEpisodes} :
         plex = [up |-> up, failing |-> {},
                 shows |-> << [InitPlex.shows[1] EXCEPT !.episodes = eps] >>]
    /\ call = [fn |-> "none", marked |-> {}, ever |-> {}]

SyncShow ==
    /\ \E tmdb_id \in {1, 2} :
         \E r \in {process_plex_label(plex, tmdb_id, TitleA, StubSuffix)} :
            /\ plex' = r.plex
            /\ call' = [fn |-> "process_plex_label", marked |-> r.marked,
                        ever |-> call.ever \cup r.marked]
    /\ UNCHANGED <<config, sonarr, fs, last, quiet, changes>>

\* A user marks an episode unwatched.
Unwatch ==
    /\ \E s \in 1..Len(plex.shows) : \E e \in 1..Len(plex.shows[s].episodes) :
         /\ plex.shows[s].episodes[e].isWatched
         /\ plex' = [plex EXCEPT !.shows[s].episodes[e].isWatched = FALSE]
    /\ UNCHANGED <<config, sonarr, fs, last, quiet, changes, call>>

NextSync ==
    \/ SyncShow
    \/ Unwatch

SpecSync == InitSync /\ [][NextSync]_vars

\* One of the episode's backing files ends with the stub suffix.
BackedByStub(episode) ==
    \E m \in 1..Len(episode.media) : \E q \in 1..Len(episode.media[m]) :
        /\ episode.media[m][q] # NoPath
        /\ str_endswith(episode.media[m][q], StubSuffix)

(***************************************************************************)
(* C3.  Whatever the sequence of process_plex_label calls, every episode   *)
(* it ever marked watched has a backing file that ends with the stub       *)
(* suffix, and a call marks at most one episode.                           *)
(***************************************************************************)
C3_OnlyStubEpisodeMarked ==
    /\ \A se \in call.ever : BackedByStub(plex.shows[se[1]].episodes[se[2]])
    /\ Cardinality(call.marked) <= 1

\* A call that passed over an unwatched real episode and marked the second
\* episode, whose stub is the second part of its second version.
C3_Witness ==
    /\ call.fn = "process_plex_label"
    /\ call.marked = {<<1, 2>>}
    /\ plex.shows[1].episodes[1] = [media |-> << <<RealFile>> >>, isWatched |-> FALSE]
    /\ plex.shows[1].episodes[2].media = << <<RealFile>>, <<NoPath, StubFile>> >>

(***************************************************************************)
(* get_merged_style of kometa_maintainerr_overlay_yaml.py, beside          *)
(* merge_styles: both resolve the same defaults and overrides.             *)
(***************************************************************************)
RECURSIVE str_replace(_, _, _)
\* str.replace(old, new) for a non-empty old.
str_replace(s, old, new) ==
    IF Len(s) < Len(old) THEN s
    ELSE IF SubSeq(s, 1, Len(old)) = old
    THEN new \o str_replace(SubSeq(s, Len(old) + 1, Len(s)), old, new)
    ELSE <<Head(s)>> \o str_replace(Tail(s), old, new)

TimePlaceholder == <<"{", "t", "i", "m", "e", "}">>

\* 'Deletion: {time}'
DefaultTextTemplate == <<"D", "e", "l", "e", "t", "i", "o", "n", ":", " ">> \o TimePlaceholder

\* The overrides that replace a default: neither None nor "".
overrides_default(val) == val # YNull /\ val # YStr(<<>>)

\* [raised: the text template is no string and .replace raised; name: the
\* overlay name; style: the resolved attributes without 'text'].
get_merged_style(global_defaults, specific, time_str) ==
    LET merged == [key \in DOMAIN global_defaults
                          \cup {k \in DOMAIN specific : overrides_default(specific[k])} |->
                      IF key \in DOMAIN specific /\ overrides_default(specific[key])
                      THEN specific[key]
                      ELSE global_defaults[key]]
        fonted == IF "font" \in DOMAIN merged /\ ~truthy(merged["font"])
                  THEN dict_del(merged, "font")
                  ELSE merged
        text_template == IF "text" \in DOMAIN fonted THEN fonted["text"]
                         ELSE YStr(DefaultTextTemplate)
    IN IF text_template.t # "str"
       THEN [raised |-> TRUE, name |-> <<>>, style |-> EmptyStyle]
       ELSE [raised |-> FALSE,
             name |-> <<"t", "e", "x", "t", "(">>
                      \o str_replace(text_template.v, TimePlaceholder, time_str) \o <<")">>,
             style |-> dict_del(fonted, "text")]

ResolveKeys == {"a", "font", "text"}

ResolveValues(key) ==
    CASE key = "a" -> {YNull, YStr(<<"x">>), YStr(<<>>), YInt(0), YBool(FALSE)}
      [] key = "font" -> {YNull, YStr(<<"f">>), YStr(<<>>), YInt(0)}
      [] key = "text" -> {YNull, YStr(<<"i", "n", " ">> \o TimePlaceholder), YInt(0)}

ResolveDicts ==
    UNION {{d \in [keys -> UNION {ResolveValues(k) : k \in ResolveKeys}] :
               \A k \in keys : d[k] \in ResolveValues(k)} : keys \in SUBSET ResolveKeys}

TimeStr == <<"3", "d">>

InitResolve ==
    /\ IdleButCall
    /\ plex = InitPlex
    /\ fs = InitFs
    /\ \E d \in ResolveDicts : \E o \in ResolveDicts :
         call = [fn |-> "none", global_defaults |-> d, specific_style |-> o,
                 merged |-> EmptyStyle,
                 maintainerr |-> [raised |-> FALSE, name |-> <<>>, style |-> EmptyStyle]]

\* merge_styles and get_merged_style on the same defaults and overrides.
Resolve ==
    /\ call.fn = "none"
    /\ call' = [call EXCEPT !.fn = "resolve",
                            !.merged = merge_styles(call.global_defaults, call.specific_style),
                            !.maintainerr = get_merged_style(call.global_defaults,
                                                             call.specific_style, TimeStr)]
    /\ UNCHANGED <<config, sonarr, fs, plex, last, quiet, changes>>

NextResolve == Resolve

SpecResolve == InitResolve /\ [][NextResolve]_vars

(***************************************************************************)
(* C11.  merge_styles and get_merged_style resolve the same defaults and   *)
(* overrides to the same attributes: for every key other than 'text', an   *)
(* override that is not null is the resolved value in both.                *)
(***************************************************************************)
C11_BothResolveAlike ==
    (call.fn = "resolve" /\ ~call.maintainerr.raised) =>
        \A key \in ResolveKeys \ {"text"} :
            LET o == call.specific_style
            IN (key \in DOMAIN o /\ o[key] # YNull) =>
                   /\ key \in DOMAIN call.merged /\ call.merged[key] = o[key]
                   /\ key \in DOMAIN call.maintainerr.style
                   /\ call.maintainerr.style[key] = o[key]

(***************************************************************************)
(* Runs under faults: a config file that is missing, no YAML or without    *)
(* instances, an instance with incomplete settings, servers that go down,  *)
(* and a catalog whose requests raise or that has lost a show.             *)
(***************************************************************************)
FaultConfigs ==
    {BaseConfig,
     [BaseConfig EXCEPT !.file = "missing"],
     [BaseConfig EXCEPT !.file = "unparseable"],
     [BaseConfig EXCEPT !.sonarr_instances = <<>>],
     [BaseConfig EXCEPT !.sonarr_instances[1].url = NoPath],
     [BaseConfig EXCEPT !.sonarr_instances[2].library_path = NoPath]}

InitFaults ==
    /\ config \in FaultConfigs
    /\ sonarr = InitSonarr
    /\ fs = InitFs
    /\ plex = InitPlex
    /\ last = NoRun
    /\ quiet = FALSE
    /\ changes = 0
    /\ call = NoCall

\* Searching the catalog for a title starts or stops raising, or the catalog
\* loses its first show.
PlexFault ==
    /\ EnvChange
    /\ \/ \E t \in {TitleA, TitleB} :
            plex' = [plex EXCEPT !.failing = IF t \in @ THEN @ \ {t} ELSE @ \cup {t}]
       \/ /\ Len(plex.shows) > 1
          /\ plex' = [plex EXCEPT !.shows = Tail(@)]
    /\ UNCHANGED <<fs, sonarr>>

NextFaults ==
    \/ Main
    \/ SetReadonly
    \/ SonarrToggle
    \/ PlexToggle
    \/ PlexFault

SpecFaults == InitFaults /\ [][NextFaults]_vars

\* Instance i fails outright: its server does not answer or rejects the
\* requests, or its settings are incomplete.
FailsOutright(i) ==
    \/ ~sonarr[i].up
    \/ \E f \in {"url", "api_key", "library_path"} : config.sonarr_instances[i][f] = NoPath

\* Show ik qualifies and its directory holds no real media.
ShowNeedsStub(ik) ==
    /\ ~Unqualified(ShowAt(ik))
    /\ ~RealMediaIn(fs, ShowDir(ik), config.stub_suffix)

\* The identifiers appended on account of instance i, in the order of its list.
IdsFrom(i) ==
    LET ks == SelectSeq([k \in 1..Len(sonarr[i].series) |-> k],
                        LAMBDA k : <<i, k>> \in last.appended)
    IN [n \in 1..Len(ks) |-> sonarr[i].series[ks[n]].tmdbId.v]

(***************************************************************************)
(* C12.  After a run, an instance that failed outright has contributed no  *)
(* identifier and no stub creation, every other instance was processed,    *)
(* in order, and the run went on to aggregation and emission.              *)
(***************************************************************************)
C12_FailedInstanceIsSkipped ==
    (quiet /\ last.exit # "none" /\ ~no_instances(config) /\ config.file = "yaml") =>
        /\ \A ik \in AllShows :
              IF FailsOutright(ik[1])
              THEN ik \notin last.attempted \cup last.appended \cup last.synced
              ELSE ShowNeedsStub(ik) => ik \in last.attempted
        /\ last.ids = IdsFrom(1) \o IdsFrom(2)
        /\ last.exit = "completed"
        /\ Range(last.master) = Range(last.ids)
        /\ (config.generate_overlay /\ config.returning_path # NoPath) => last.kometa # NoData

\* The first instance has no url; the second was processed and the artifact
\* written.
C12_Witness ==
    /\ JustRan
    /\ config.sonarr_instances[1].url = NoPath
    /\ last.attempted = {<<2, 1>>}
    /\ last.master = <<1>>
    /\ last.written

(***************************************************************************)
(* C13.  With the config file missing or unparseable, or without           *)
(* instances, a run ends with a non-zero status and has sent no request,   *)
(* created no directory and no file, and written no artifact.  (The log    *)
(* file, which main opens before it looks for the instances, is the one    *)
(* file a run without instances touches.)                                  *)
(***************************************************************************)
FatalConfig == config.file # "yaml" \/ config.sonarr_instances = <<>>

C13_FatalConfigExitsFirst ==
    [][(FatalConfig /\ changes' = changes) =>
          /\ last'.exit \in {"exit1", "traceback"}
          /\ last'.requested = {} /\ ~last'.plex_requested
          /\ sonarr' = sonarr /\ plex' = plex
          /\ fs'.dirs = fs.dirs
          /\ \A p \in DOMAIN fs'.files \ {config.log_file} :
                p \in DOMAIN fs.files /\ fs'.files[p] = fs.files[p]
          /\ config.file # "yaml" => fs' = fs]_vars

\* A run without instances has ended with status 1.
C13_Witness ==
    /\ last.exit = "exit1"
    /\ config.file = "yaml" /\ config.sonarr_instances = <<>>
    /\ config.returning_path \notin DOMAIN fs.files
    /\ changes > 0

(***************************************************************************)
(* C15.  After a run, a show whose Plex sync raised or matched no catalog  *)
(* record has had its stub creation attempted and its identifier appended, *)
(* and the shows after it in the instance's list were processed.           *)
(***************************************************************************)
C15_SyncFailureIsConfined ==
    JustRan =>
        \A ik \in last.unsynced :
            /\ ik \in last.attempted
            /\ ik \in last.appended
            /\ ShowAt(ik).tmdbId.v \in Range(last.master)
            /\ \A jk \in AllShows :
                  (jk[1] = ik[1] /\ jk[2] > ik[2] /\ ShowNeedsStub(jk)) =>
                      jk \in last.attempted

\* The search for the first show raised; its stub was written, and the show
\* after it was processed and synced.
C15_Witness ==
    /\ JustRan
    /\ <<1, 1>> \in last.unsynced
    /\ TitleA \in plex.failing
    /\ StubOf(<<1, 1>>) \in last.created
    /\ <<1, 2>> \in last.synced \ last.unsynced

(***************************************************************************)
(* The artifact, the catalog record synced and the stubs behind the list,  *)
(* over the runs of Spec.                                                  *)
(***************************************************************************)
\* A file can be created at p: the nearest directory above p that exists
\* takes new entries.  The empty directory name is the working directory.
RECURSIVE CanCreate(_, _)
CanCreate(f, p) ==
    LET d == path_dirname(p)
    IN IF d = <<>> THEN WorkingDir \notin f.readonly
       ELSE IF d \in f.dirs THEN d \notin f.readonly
       ELSE CanCreate(f, d)

\* The filesystem permits writing the file p.
FsPermits(f, p) == p \in DOMAIN f.files \/ CanCreate(f, p)

(***************************************************************************)
(* C16.  After a run with generation enabled and an output path            *)
(* configured, whatever its shape, the artifact is at the output path      *)
(* whenever the filesystem permits the write.                              *)
(***************************************************************************)
C16_ArtifactPresentWhenPermitted ==
    (JustRan /\ config.generate_overlay /\ config.returning_path # NoPath
             /\ FsPermits(fs, config.returning_path)) =>
        /\ last.written
        /\ config.returning_path \in DOMAIN fs.files
        /\ fs.files[config.returning_path] = [yaml |-> last.kometa]

\* The identifier strings of a catalog record.
IdentifiersOf(show) == Range(show.guids) \cup {show.guid}

(***************************************************************************)
(* C18.  After a run, every catalog record that was labelled or had an     *)
(* episode marked watched carries the identifier tmdb://<id> of one of the *)
(* shows synced, <id> being that show's whole identifier.                  *)
(***************************************************************************)
C18_SyncedRecordCarriesTheId ==
    JustRan =>
        \A s \in last.labelled \cup {m[1] : m \in last.marked} :
            \E ik \in last.synced :
                TmdbPrefix \o int_str(ShowAt(ik).tmdbId.v) \in IdentifiersOf(plex.shows[s])

(***************************************************************************)
(* C19.  After a run, every show whose identifier was listed has its stub  *)
(* file in its derived directory.                                          *)
(***************************************************************************)
C19_ListedShowsHaveTheirStub ==
    JustRan =>
        \A ik \in last.appended :
            /\ ShowAt(ik).tmdbId.v \in Range(last.master)
            /\ StubOf(ik) \in DOMAIN fs.files

(***************************************************************************)
(* ensure_sonarr_settings alone: called again and again on one server,     *)
(* which may go down and come back between the calls.                      *)
(***************************************************************************)
\* How many times ensure_sonarr_settings is called.
MaxEnsures == 2

\* The media management resources a Sonarr server returns: the two flags,
\* the resource id and one more field.
SettingsResources ==
    { [k \in {"id", "createEmptySeriesFolders", "deleteEmptyFolders", "recycleBin"} |->
          CASE k = "id" -> YInt(id)
            [] k = "createEmptySeriesFolders" -> YBool(c)
            [] k = "deleteEmptyFolders" -> YBool(d)
            [] k = "recycleBin" -> YStr(bin)] :
      id \in {1, 3}, c \in BOOLEAN, d \in BOOLEAN, bin \in { <<>>, <<"/", "b">> } }

InitSettings ==
    /\ IdleButCall
    /\ plex = InitPlex
    /\ fs = InitFs
    /\ \E up \in BOOLEAN : \E res \in SettingsResources :
         call = [fn |-> "none", server |-> [up |-> up, settings |-> res, series |-> <<>>],
                 fetched |-> res, puts |-> <<>>, errors |-> <<>>]

EnsureSettings ==
    /\ Len(call.puts) < MaxEnsures
    /\ \E r \in {ensure_sonarr_settings(call.server)} :
         call' = [fn |-> "ensure_sonarr_settings", server |-> r.server,
                  fetched |-> call.server.settings,
                  puts |-> Append(call.puts, r.put),
                  errors |-> Append(call.errors, ~call.server.up)]
    /\ UNCHANGED <<config, sonarr, fs, plex, last, quiet, changes>>

\* The server goes down or comes back.
ServerToggle ==
    /\ call' = [call EXCEPT !.server.up = ~@]
    /\ UNCHANGED <<config, sonarr, fs, plex, last, quiet, changes>>

NextSettings ==
    \/ EnsureSettings
    \/ ServerToggle

SpecSettings == InitSettings /\ [][NextSettings]_vars

\* The settings are the target: folders created, empty folders kept.
OnTarget(settings) ==
    /\ settings["createEmptySeriesFolders"] = YBool(TRUE)
    /\ settings["deleteEmptyFolders"] = YBool(FALSE)

(***************************************************************************)
(* C17.  After a call of ensure_sonarr_settings without a request error    *)
(* the server's settings are on target with every other field as fetched;  *)
(* the update was sent if and only if the settings fetched were off        *)
(* target; and a call that follows a call without error sends none.        *)
(***************************************************************************)
C17_SettingsConverge ==
    LET n == Len(call.puts)
    IN (n >= 1 /\ ~call.errors[n]) =>
          /\ OnTarget(call.server.settings)
          /\ DOMAIN call.server.settings = DOMAIN call.fetched
          /\ \A k \in DOMAIN call.fetched \ {"createEmptySeriesFolders", "deleteEmptyFolders"} :
                call.server.settings[k] = call.fetched[k]
          /\ call.puts[n] <=> ~OnTarget(call.fetched)
          /\ (n >= 2 /\ ~call.errors[n - 1]) => ~call.puts[n]

\* Two calls without error: the first sent the update for resource 3, the
\* second sent none.
C17_Witness ==
    /\ call.puts = <<TRUE, FALSE>>
    /\ call.errors = <<FALSE, FALSE>>
    /\ call.server.settings["id"] = YInt(3)
    /\ call.server.settings["recycleBin"] = YStr(<<"/", "b">>)

(***************************************************************************)
(* One run step by step, each step ending with an external request         *)
(* answered.  requests.get and requests.put are called without a timeout:  *)
(* a request to a server that never responds does not return, and the step *)
(* that waits for it is never taken.  call.hung holds the instances whose  *)
(* server accepts the connection and never responds.                       *)
(***************************************************************************)
InitHang ==
    /\ config \in {BaseConfig, [BaseConfig EXCEPT !.generate_overlay = FALSE]}
    /\ sonarr = InitSonarr
    /\ fs = InitFs
    /\ plex = InitPlex
    /\ last = NoRun
    /\ quiet = FALSE
    /\ changes = 0
    /\ \E h \in SUBSET (1..Len(InitSonarr)) :
         call = [fn |-> "main", pc |-> "idle", i |-> 0, hung |-> h, plex_server |-> FALSE,
                 acc |-> new_acc(InitFs, InitPlex, InitSonarr)]

\* main up to the instance loop.
StartRun ==
    /\ call.pc \in {"idle", "done"}
    /\ load_config(config) = "none" /\ ~no_instances(config)
    /\ fs' = setup_logging(fs, config.log_file)
    /\ call' = [call EXCEPT !.pc = "settings", !.i = 1,
                            !.plex_server = connect_plex(config, plex),
                            !.acc = new_acc(fs', plex, sonarr)]
    /\ quiet' = FALSE
    /\ UNCHANGED <<config, sonarr, plex, last, changes>>

\* ensure_sonarr_settings(name, url, api_key) of instance call.i has returned.
SettingsStep ==
    /\ call.pc = "settings"
    /\ call.i \notin call.hung
    /\ \E r \in {ensure_sonarr_settings(sonarr[call.i])} :
         /\ sonarr' = [sonarr EXCEPT ![call.i] = r.server]
         /\ call' = [call EXCEPT !.pc = "series",
                                 !.acc.requested = @ \cup {call.i},
                                 !.acc.puts = @ \cup (IF r.put THEN {call.i} ELSE {}),
                                 !.acc.listed = @ \cup (IF r.server.up THEN {call.i} ELSE {})]
    /\ UNCHANGED <<config, fs, plex, last, quiet, changes>>

\* The request of get_sonarr_series for instance call.i is answered.
SeriesCanStep == call.pc = "series" /\ call.i \notin call.hung

\* get_sonarr_series of instance call.i has returned and its shows have been
\* gone through.
SeriesStep ==
    /\ SeriesCanStep
    /\ \E out \in {process_shows([call.acc EXCEPT !.fs = fs, !.plex = plex, !.sonarr = sonarr],
                                 call.i, 1, get_sonarr_series(sonarr[call.i]),
                                 config.sonarr_instances[call.i].library_path,
                                 call.plex_server, config_settings_of(config))} :
         /\ fs' = out.fs
         /\ plex' = out.plex
         /\ call' = [call EXCEPT !.acc = out,
                                 !.pc = IF call.i < Len(config.sonarr_instances)
                                        THEN "settings" ELSE "emit",
                                 !.i = IF call.i < Len(config.sonarr_instances)
                                       THEN @ + 1 ELSE @]
    /\ UNCHANGED <<config, sonarr, last, quiet, changes>>

\* Steps 6 and 7 of main, the final step of a run.
EmitStep ==
    /\ call.pc = "emit"
    /\ \E master \in dedupe(call.acc.ids) :
         \E out \in {generate_yaml(fs, config, master)} :
            /\ fs' = out.fs
            /\ last' = [NoRun EXCEPT !.exit = "completed", !.master = master,
                                     !.kometa = out.kometa, !.written = out.written,
                                     !.ids = call.acc.ids, !.appended = call.acc.appended,
                                     !.attempted = call.acc.attempted,
                                     !.requested = call.acc.requested]
    /\ call' = [call EXCEPT !.pc = "done"]
    /\ quiet' = TRUE
    /\ UNCHANGED <<config, sonarr, plex, changes>>

NextHang ==
    \/ StartRun
    \/ SettingsStep
    \/ SeriesStep
    \/ EmitStep
    \/ SonarrToggle

\* The process is scheduled: a step of a run that can be taken is taken.
\* The last conjunct is WF_vars(SeriesStep), written with the step's
\* enabling condition.
SpecHang ==
    /\ InitHang /\ [][NextHang]_vars
    /\ WF_vars(SettingsStep) /\ WF_vars(EmitStep)
    /\ ([]<>~SeriesCanStep \/ []<><<SeriesStep>>_vars)

(***************************************************************************)
(* C14.  Every run terminates: a run that has started reaches its final    *)
(* step, whether or not a server ever responds.                            *)
(***************************************************************************)
C14_EveryRunTerminates == (call.pc = "settings") ~> (call.pc = "done")

====
